---- MODULE Spec2Model ----
(***************************************************************************)
(* Model of the Strava dashboard's token lifecycle and data layer:         *)
(*   src/src/strava_data.py  StravaDataFetcher                             *)
(*   src/src/auth_script.py  StravaAuthenticator.exchange_token            *)
(*   src/src/dash.py         main (one fetcher per dashboard session)      *)
(*                                                                         *)
(* Each dashboard session builds its own StravaDataFetcher from a          *)
(* credential file; sessions run concurrently and interleave at their      *)
(* blocking calls (the token exchange POST, the file write, the API GET).  *)
(* The token endpoint and the API are external: their answers are          *)
(* nondeterministic.                                                       *)
(***************************************************************************)
EXTENDS Integers, Sequences, FiniteSets, TLC

\* ------------------------------------------------------------------ bounds
MaxTime == 2
MaxTokens == 2
Lifetime == 2
MaxBatch == 2

\* Dashboard sessions (dash.py main runs once per session).
Sessions == {"s1", "s2"}

\* The path _refresh_token writes to, and another path a fetcher can be
\* constructed with (tokens_file is a parameter of __init__).
DefaultPath == "strava_tokens.json"
Paths == {DefaultPath, "backup_tokens.json"}

VARIABLES
    now,        \* the clock, datetime.now().timestamp()
    configured, \* whether .env sets the client id, secret and redirect URI
    files,      \* path -> file content: the <<key, value>> entries on disk
    nextId,     \* the token endpoint's next fresh token value
    pc,         \* session -> where its fetcher stands
    tokensFile, \* session -> the tokens_file its fetcher was constructed with
    tokens,     \* session -> self.tokens
    req,        \* session -> the request it has in flight
    outcome,    \* session -> how its last constructor or call ended
    returned,   \* session -> the activities its last get_activities returned
    warned,     \* session -> whether that call printed the warning
    loaded,     \* session -> the TokenSet its constructor read       (history)
    loadedAt,   \* session -> the clock at the constructor's check    (history)
    issued,     \* session -> refresh exchanges its fetcher sent       (history)
    completed,  \* session -> refresh exchanges answered with 200      (history)
    writes,     \* session -> times its fetcher opened a file to write (history)
    sent,       \* session -> requests sent by its current API call    (history)
    lastStatus, \* session -> what its current API call's request met  (history)
    exchangeStatus, \* session -> how the token endpoint answered it   (history)
    lastBody,   \* session -> the list a 200 answered its current call (history)
    rawActivities, \* the argument of the last process_activities call
    frame          \* what that call produced

vars == <<now, configured, files, nextId, pc, tokensFile, tokens, req,
          outcome, returned, warned, loaded, loadedAt, issued, completed,
          writes, sent, lastStatus, exchangeStatus, lastBody, rawActivities,
          frame>>

sessionVars == <<pc, tokensFile, tokens, req, outcome, returned, warned,
                 loaded, loadedAt, issued, completed, writes, sent, lastStatus,
                 exchangeStatus, lastBody>>

\* ------------------------------------------------------------- TokenSet
TokenKeys == <<"access_token", "refresh_token", "expires_at">>

NoTokens == [access_token |-> -1, refresh_token |-> -1, expires_at |-> -1]

\* json.dump(self.tokens, f): the entries in the order the dict holds them.
JsonDump(t) ==
    << <<"access_token", t.access_token>>,
       <<"refresh_token", t.refresh_token>>,
       <<"expires_at", t.expires_at>> >>

\* A file json.load can parse into the three keys __init__ reads.
ParsesAsTokens(content) ==
    /\ Len(content) = 3
    /\ \A i \in 1..3 : content[i][1] = TokenKeys[i]

Lookup(content, key) ==
    content[CHOOSE i \in 1..Len(content) : content[i][1] = key][2]

\* json.load(f) of a file that parses.
JsonLoad(content) ==
    [access_token |-> Lookup(content, "access_token"),
     refresh_token |-> Lookup(content, "refresh_token"),
     expires_at |-> Lookup(content, "expires_at")]

\* The first n entries of what json.dump writes.
Prefix(content, n) == SubSeq(content, 1, n)

\* Variants of the expiry check: one that misses the instant of expiry, one
\* that refreshes a token a tick before it expires.
IsExpired_Strict(t, clock) == clock > t.expires_at

IsExpired_Early(t, clock) == clock + 1 >= t.expires_at

\* datetime.now().timestamp() >= self.tokens['expires_at']
IsExpired(t, clock) == clock >= t.expires_at

\* ------------------------------------------------------------- requests
NoReq == [kind |-> "none"]

\* StravaAuthenticator.exchange_token(code): the form it posts.
ExchangeForm(code) ==
    [kind |-> "POST",
     url |-> "https://www.strava.com/oauth/token",
     client_id |-> "STRAVA_CLIENT_ID",
     client_secret |-> "STRAVA_CLIENT_SECRET",
     code |-> code,
     grant_type |-> "authorization_code"]

\* The GET of get_activities / get_athlete_profile.
ApiRequest(url, t, clock) ==
    [kind |-> "GET", url |-> url, bearer |-> t.access_token, at |-> clock]

ActivitiesUrl == "https://www.strava.com/api/v3/athlete/activities"
AthleteUrl == "https://www.strava.com/api/v3/athlete"

Statuses == {200, 401}

\* ------------------------------------------------------------------ Init
InitialExpiries == {0, 2}

Init ==
    /\ now = 0
    /\ configured \in BOOLEAN
    /\ files \in [Paths -> {JsonDump([access_token |-> 0, refresh_token |-> 0,
                                      expires_at |-> e]) : e \in InitialExpiries}]
    /\ nextId = 1
    /\ pc = [s \in Sessions |-> "idle"]
    /\ tokensFile = [s \in Sessions |-> DefaultPath]
    /\ tokens = [s \in Sessions |-> NoTokens]
    /\ req = [s \in Sessions |-> NoReq]
    /\ outcome = [s \in Sessions |-> "none"]
    /\ returned = [s \in Sessions |-> <<>>]
    /\ warned = [s \in Sessions |-> FALSE]
    /\ loaded = [s \in Sessions |-> NoTokens]
    /\ loadedAt = [s \in Sessions |-> 0]
    /\ issued = [s \in Sessions |-> 0]
    /\ completed = [s \in Sessions |-> 0]
    /\ writes = [s \in Sessions |-> 0]
    /\ sent = [s \in Sessions |-> 0]
    /\ lastStatus = [s \in Sessions |-> "none"]
    /\ exchangeStatus = [s \in Sessions |-> "none"]
    /\ lastBody = [s \in Sessions |-> <<>>]
    /\ rawActivities = <<>>
    /\ frame = [status |-> "not_called", rows |-> <<>>]

\* --------------------------------------------------------------- actions
\* Time passes.
Tick ==
    /\ now < MaxTime
    /\ now' = now + 1
    /\ UNCHANGED <<files, nextId, sessionVars, rawActivities, frame, configured>>

\* StravaDataFetcher(tokens_file): read the file, check the expiry and, when
\* expired, enter _refresh_token up to its blocking POST. StravaAuthenticator()
\* raises ValueError there when the environment is not configured.
Construct(s, path) ==
    /\ pc[s] = "idle"
    /\ tokensFile' = [tokensFile EXCEPT ![s] = path]
    /\ loadedAt' = [loadedAt EXCEPT ![s] = now]
    /\ IF ~ParsesAsTokens(files[path])
       THEN /\ pc' = [pc EXCEPT ![s] = "failed"]
            /\ outcome' = [outcome EXCEPT ![s] = "JSONDecodeError"]
            /\ UNCHANGED <<tokens, loaded, req, issued>>
       ELSE LET t == JsonLoad(files[path]) IN
            /\ tokens' = [tokens EXCEPT ![s] = t]
            /\ loaded' = [loaded EXCEPT ![s] = t]
            /\ IF IsExpired(t, now) /\ ~configured
               THEN /\ pc' = [pc EXCEPT ![s] = "failed"]
                    /\ outcome' = [outcome EXCEPT ![s] = "ValueError"]
                    /\ UNCHANGED <<req, issued>>
               ELSE IF IsExpired(t, now)
               THEN /\ pc' = [pc EXCEPT ![s] = "exchanging"]
                    /\ req' = [req EXCEPT ![s] = ExchangeForm(t.refresh_token)]
                    /\ issued' = [issued EXCEPT ![s] = @ + 1]
                    /\ UNCHANGED outcome
               ELSE /\ pc' = [pc EXCEPT ![s] = "ready"]
                    /\ outcome' = [outcome EXCEPT ![s] = "constructed"]
                    /\ UNCHANGED <<req, issued>>
    /\ UNCHANGED <<now, files, nextId, returned, warned,
                   lastBody, completed, writes,
                   sent, lastStatus, exchangeStatus,
                   rawActivities, frame, configured>>

\* A variant of _refresh_token that stores the answer and opens the file
\* before it looks at the status.
ExchangeResponse_StoreFirst(s, status) ==
    /\ pc[s] = "exchanging"
    /\ req' = [req EXCEPT ![s] = NoReq]
    /\ exchangeStatus' = [exchangeStatus EXCEPT ![s] =
                            IF status = 200 THEN "success" ELSE "rejected"]
    /\ status = 200 => nextId <= MaxTokens
    /\ nextId' = IF status = 200 THEN nextId + 1 ELSE nextId
    /\ tokens' = [tokens EXCEPT ![s] =
                    IF status = 200
                    THEN [access_token |-> nextId, refresh_token |-> nextId,
                          expires_at |-> now + Lifetime]
                    ELSE NoTokens]
    /\ files' = [files EXCEPT ![DefaultPath] = <<>>]
    /\ writes' = [writes EXCEPT ![s] = @ + 1]
    /\ IF status = 200
       THEN /\ completed' = [completed EXCEPT ![s] = @ + 1]
            /\ pc' = [pc EXCEPT ![s] = "dumping"]
            /\ UNCHANGED outcome
       ELSE /\ pc' = [pc EXCEPT ![s] = "failed"]
            /\ outcome' = [outcome EXCEPT ![s] = "TokenExchangeFailed"]
            /\ UNCHANGED completed
    /\ UNCHANGED <<now, tokensFile, returned, warned,
                   lastBody, loaded, loadedAt, issued,
                   sent, lastStatus, rawActivities, frame, configured>>

\* _refresh_token resumes with the token endpoint's answer. 200: new_tokens
\* replaces self.tokens and open("strava_tokens.json", "w") truncates that
\* file. Otherwise exchange_token raises and nothing else runs.
ExchangeResponse(s, status) ==
    /\ pc[s] = "exchanging"
    /\ req' = [req EXCEPT ![s] = NoReq]
    /\ exchangeStatus' = [exchangeStatus EXCEPT ![s] =
                            IF status = 200 THEN "success" ELSE "rejected"]
    /\ IF status = 200
       THEN /\ nextId <= MaxTokens
            /\ nextId' = nextId + 1
            /\ tokens' = [tokens EXCEPT ![s] =
                            [access_token |-> nextId, refresh_token |-> nextId,
                             expires_at |-> now + Lifetime]]
            /\ completed' = [completed EXCEPT ![s] = @ + 1]
            /\ files' = [files EXCEPT ![DefaultPath] = <<>>]
            /\ writes' = [writes EXCEPT ![s] = @ + 1]
            /\ pc' = [pc EXCEPT ![s] = "dumping"]
            /\ UNCHANGED outcome
       ELSE /\ pc' = [pc EXCEPT ![s] = "failed"]
            /\ outcome' = [outcome EXCEPT ![s] = "TokenExchangeFailed"]
            /\ UNCHANGED <<nextId, tokens, completed, files, writes>>
    /\ UNCHANGED <<now, tokensFile, returned, warned,
                   lastBody, loaded, loadedAt, issued,
                   sent, lastStatus, rawActivities, frame, configured>>

\* requests.post raises (connection refused, timeout): it propagates.
ExchangeTransportError(s) ==
    /\ pc[s] = "exchanging"
    /\ req' = [req EXCEPT ![s] = NoReq]
    /\ pc' = [pc EXCEPT ![s] = "failed"]
    /\ outcome' = [outcome EXCEPT ![s] = "RequestException"]
    /\ UNCHANGED <<now, files, nextId, tokensFile, tokens, returned, warned,
                   lastBody,
                   loaded, loadedAt, issued, completed, writes, sent,
                   lastStatus, exchangeStatus,
                   rawActivities, frame, configured>>

\* json.dump(self.tokens, f) and the close of the file: n of the three
\* entries reach the disk. All three: the constructor returns. Fewer: the
\* write failed or was interrupted, and the error propagates.
DumpTokens(s, n) ==
    /\ pc[s] = "dumping"
    /\ files' = [files EXCEPT ![DefaultPath] = Prefix(JsonDump(tokens[s]), n)]
    /\ IF n = 3
       THEN /\ pc' = [pc EXCEPT ![s] = "ready"]
            /\ outcome' = [outcome EXCEPT ![s] = "constructed"]
       ELSE /\ pc' = [pc EXCEPT ![s] = "failed"]
            /\ outcome' = [outcome EXCEPT ![s] = "OSError"]
    /\ UNCHANGED <<now, nextId, tokensFile, tokens, req, returned, warned,
                   lastBody,
                   loaded, loadedAt, issued, completed, writes, sent,
                   lastStatus, exchangeStatus,
                   rawActivities, frame, configured>>

\* get_activities / get_athlete_profile up to the blocking GET: the header is
\* built from self.tokens['access_token'] and the request is sent.
SendApiRequest(s, url, where) ==
    /\ pc[s] = "ready"
    /\ pc' = [pc EXCEPT ![s] = where]
    /\ req' = [req EXCEPT ![s] = ApiRequest(url, tokens[s], now)]
    /\ sent' = [sent EXCEPT ![s] = 1]
    /\ lastStatus' = [lastStatus EXCEPT ![s] = "none"]
    /\ outcome' = [outcome EXCEPT ![s] = "pending"]
    /\ returned' = [returned EXCEPT ![s] = <<>>]
    /\ warned' = [warned EXCEPT ![s] = FALSE]
    /\ lastBody' = [lastBody EXCEPT ![s] = <<>>]
    /\ UNCHANGED <<now, files, nextId, tokensFile, tokens, loaded, loadedAt,
                   issued, completed, writes, exchangeStatus,
                   rawActivities, frame, configured>>

GetActivities(s) == SendApiRequest(s, ActivitiesUrl, "get_activities")

GetAthleteProfile(s) == SendApiRequest(s, AthleteUrl, "get_athlete_profile")

\* The bodies the activities endpoint answers with: none, or one activity.
ActivityBodies == {<<>>, <<[name |-> "Morning Run"]>>}

\* A variant of the calls that sends the request once more after a failure
\* status before it gives up.
ApiResponse_Retry(s, status, body) ==
    /\ pc[s] \in {"get_activities", "get_athlete_profile"}
    /\ pc[s] = "get_athlete_profile" => body = <<>>
    /\ lastStatus' = [lastStatus EXCEPT ![s] =
                        IF status = 200 THEN "success" ELSE "failure"]
    /\ lastBody' = [lastBody EXCEPT ![s] = IF status = 200 THEN body ELSE <<>>]
    /\ IF status # 200 /\ sent[s] < 2
       THEN /\ req' = [req EXCEPT ![s] = [@ EXCEPT !.at = now]]
            /\ sent' = [sent EXCEPT ![s] = @ + 1]
            /\ UNCHANGED <<pc, outcome, returned, warned>>
       ELSE /\ pc' = [pc EXCEPT ![s] = "ready"]
            /\ req' = [req EXCEPT ![s] = NoReq]
            /\ UNCHANGED sent
            /\ IF status # 200
               THEN /\ outcome' = [outcome EXCEPT ![s] = "HTTPError"]
                    /\ UNCHANGED <<returned, warned>>
               ELSE /\ outcome' = [outcome EXCEPT ![s] = "returned"]
                    /\ returned' = [returned EXCEPT ![s] = body]
                    /\ warned' = [warned EXCEPT ![s] =
                                    pc[s] = "get_activities" /\ body = <<>>]
    /\ UNCHANGED <<now, files, nextId, tokensFile, tokens, loaded, loadedAt,
                   issued, completed, writes, exchangeStatus,
                   rawActivities, frame, configured>>

\* A variant of get_activities that treats an empty list as an error.
ApiResponse_RaiseOnEmpty(s, status, body) ==
    /\ pc[s] \in {"get_activities", "get_athlete_profile"}
    /\ pc[s] = "get_athlete_profile" => body = <<>>
    /\ pc' = [pc EXCEPT ![s] = "ready"]
    /\ req' = [req EXCEPT ![s] = NoReq]
    /\ lastStatus' = [lastStatus EXCEPT ![s] =
                        IF status = 200 THEN "success" ELSE "failure"]
    /\ lastBody' = [lastBody EXCEPT ![s] = IF status = 200 THEN body ELSE <<>>]
    /\ IF status # 200
       THEN /\ outcome' = [outcome EXCEPT ![s] = "HTTPError"]
            /\ UNCHANGED <<returned, warned>>
       ELSE IF pc[s] = "get_activities" /\ body = <<>>
       THEN /\ outcome' = [outcome EXCEPT ![s] = "NoActivities"]
            /\ UNCHANGED <<returned, warned>>
       ELSE /\ outcome' = [outcome EXCEPT ![s] = "returned"]
            /\ returned' = [returned EXCEPT ![s] = body]
            /\ UNCHANGED warned
    /\ UNCHANGED <<now, files, nextId, tokensFile, tokens, loaded, loadedAt,
                   issued, completed, writes, sent, exchangeStatus,
                   rawActivities, frame, configured>>

\* The call resumes with the API's answer: 200 returns (get_activities warns
\* on an empty list), any other status raises.
ApiResponse(s, status, body) ==
    /\ pc[s] \in {"get_activities", "get_athlete_profile"}
    /\ pc[s] = "get_athlete_profile" => body = <<>>
    /\ pc' = [pc EXCEPT ![s] = "ready"]
    /\ req' = [req EXCEPT ![s] = NoReq]
    /\ lastStatus' = [lastStatus EXCEPT ![s] =
                        IF status = 200 THEN "success" ELSE "failure"]
    /\ lastBody' = [lastBody EXCEPT ![s] = IF status = 200 THEN body ELSE <<>>]
    /\ IF status # 200
       THEN /\ outcome' = [outcome EXCEPT ![s] = "HTTPError"]
            /\ UNCHANGED <<returned, warned>>
       ELSE /\ outcome' = [outcome EXCEPT ![s] = "returned"]
            /\ returned' = [returned EXCEPT ![s] = body]
            /\ warned' = [warned EXCEPT ![s] =
                            pc[s] = "get_activities" /\ body = <<>>]
    /\ UNCHANGED <<now, files, nextId, tokensFile, tokens, loaded, loadedAt,
                   issued, completed, writes, sent, exchangeStatus,
                   rawActivities, frame, configured>>

\* requests.get raises: the handler prints and re-raises.
ApiTransportError(s) ==
    /\ pc[s] \in {"get_activities", "get_athlete_profile"}
    /\ pc' = [pc EXCEPT ![s] = "ready"]
    /\ req' = [req EXCEPT ![s] = NoReq]
    /\ lastStatus' = [lastStatus EXCEPT ![s] = "failure"]
    /\ outcome' = [outcome EXCEPT ![s] = "RequestException"]
    /\ UNCHANGED <<now, files, nextId, tokensFile, tokens, returned, warned,
                   lastBody,
                   loaded, loadedAt, issued, completed, writes, sent,
                   exchangeStatus,
                   rawActivities, frame, configured>>

\* The session's script ends (main returns or its except branch ran); the
\* next run of main constructs a new fetcher.
EndRun(s) ==
    /\ pc[s] \in {"ready", "failed"}
    /\ pc' = [pc EXCEPT ![s] = "idle"]
    /\ tokensFile' = [tokensFile EXCEPT ![s] = DefaultPath]
    /\ tokens' = [tokens EXCEPT ![s] = NoTokens]
    /\ outcome' = [outcome EXCEPT ![s] = "none"]
    /\ returned' = [returned EXCEPT ![s] = <<>>]
    /\ warned' = [warned EXCEPT ![s] = FALSE]
    /\ lastBody' = [lastBody EXCEPT ![s] = <<>>]
    /\ loaded' = [loaded EXCEPT ![s] = NoTokens]
    /\ loadedAt' = [loadedAt EXCEPT ![s] = 0]
    /\ issued' = [issued EXCEPT ![s] = 0]
    /\ completed' = [completed EXCEPT ![s] = 0]
    /\ writes' = [writes EXCEPT ![s] = 0]
    /\ sent' = [sent EXCEPT ![s] = 0]
    /\ lastStatus' = [lastStatus EXCEPT ![s] = "none"]
    /\ exchangeStatus' = [exchangeStatus EXCEPT ![s] = "none"]
    /\ UNCHANGED <<now, files, nextId, req, rawActivities, frame, configured>>

\* ------------------------------------------------- process_activities
\* Numbers are kept in hundredths where the code rounds to two decimals.
ActivityKeys == {"name", "type", "start_date", "distance", "moving_time",
                 "total_elevation_gain", "average_speed", "average_heartrate",
                 "max_heartrate"}

\* One value per field of the activities endpoint's objects: distance in
\* metres, moving_time in seconds, total_elevation_gain and average_speed in
\* hundredths (12.34 m, 2.78 m/s), heart rates as one-element sequences.
SampleValue(k) ==
    CASE k = "name" -> "Morning Run"
      [] k = "type" -> "Run"
      [] k = "start_date" -> "2024-01-01T10:00:00Z"
      [] k = "distance" -> 5000
      [] k = "moving_time" -> 1800
      [] k = "total_elevation_gain" -> 1234
      [] k = "average_speed" -> 278
      [] k = "average_heartrate" -> <<150>>
      [] k = "max_heartrate" -> <<180>>

\* The raw objects: every field, no field, one field missing, one field only.
PresentSets ==
    {ActivityKeys, {}} \cup {ActivityKeys \ {k} : k \in ActivityKeys}
                       \cup {{k} : k \in ActivityKeys}

RawActivities == {[k \in present |-> SampleValue(k)] : present \in PresentSets}

Batches == UNION {[1..n -> RawActivities] : n \in 0..MaxBatch}

\* activity.get(key, default)
Get(activity, key, default) ==
    IF key \in DOMAIN activity THEN activity[key] ELSE default

\* str.replace('Z', '+00:00') on the strings that occur.
ReplaceZ(str) ==
    IF str = "2024-01-01T10:00:00Z" THEN "2024-01-01T10:00:00+00:00" ELSE str

\* datetime.fromisoformat: <<timestamp>>, or <<>> where it raises ValueError
\* (the empty string is not an ISO date).
FromIsoFormat(str) ==
    IF str = "2024-01-01T10:00:00+00:00" THEN <<1704103200>> ELSE <<>>

\* round(n / d) to the nearest integer, the half to the even one.
RoundDiv(n, d) ==
    LET q == n \div d
        r == n % d
    IN  IF 2 * r < d THEN q
        ELSE IF 2 * r > d THEN q + 1
        ELSE IF q % 2 = 0 THEN q ELSE q + 1

\* The dict process_activities appends for one activity, start_date parsed.
ProcessedRow(activity, date) ==
    [name |-> Get(activity, "name", "Unnamed Activity"),
     type |-> Get(activity, "type", "Unknown"),
     start_date |-> date,
     distance_km |-> RoundDiv(Get(activity, "distance", 0) * 100, 1000),
     moving_time_min |-> RoundDiv(Get(activity, "moving_time", 0) * 100, 60),
     total_elevation_gain |-> Get(activity, "total_elevation_gain", 0),
     average_speed_kmh |-> RoundDiv(Get(activity, "average_speed", 0) * 36, 10),
     average_heartrate |-> Get(activity, "average_heartrate", <<>>),
     max_heartrate |-> Get(activity, "max_heartrate", <<>>)]

\* The loop of process_activities from activity i on, rows collected so far:
\* a ValueError of fromisoformat leaves the loop and the function.
RECURSIVE ProcessFrom(_, _, _)
ProcessFrom(activities, i, rows) ==
    IF i > Len(activities)
    THEN [status |-> "DataFrame", rows |-> rows]
    ELSE LET date == FromIsoFormat(ReplaceZ(Get(activities[i], "start_date", "")))
         IN  IF date = <<>>
             THEN [status |-> "ValueError", rows |-> <<>>]
             ELSE ProcessFrom(activities, i + 1,
                              Append(rows, ProcessedRow(activities[i], date[1])))

\* fetcher.process_activities(activities)
ProcessActivities(activities) ==
    /\ rawActivities' = activities
    /\ frame' = ProcessFrom(activities, 1, <<>>)
    /\ UNCHANGED <<now, files, nextId, sessionVars, configured>>

Next ==
    \/ Tick
    \/ \E s \in Sessions, path \in Paths : Construct(s, path)
    \/ \E s \in Sessions, status \in Statuses : ExchangeResponse(s, status)
    \/ \E s \in Sessions : ExchangeTransportError(s)
    \/ \E s \in Sessions, n \in 0..3 : DumpTokens(s, n)
    \/ \E s \in Sessions : GetActivities(s)
    \/ \E s \in Sessions : GetAthleteProfile(s)
    \/ \E s \in Sessions, status \in Statuses, body \in ActivityBodies :
          ApiResponse(s, status, body)
    \/ \E s \in Sessions : ApiTransportError(s)
    \/ \E s \in Sessions : EndRun(s)

Spec == Init /\ [][Next]_vars

\* process_activities alone, on every batch of raw activities.
NextNormalize == \E activities \in Batches : ProcessActivities(activities)

SpecNormalize == Init /\ [][NextNormalize]_vars

\* ===================================================================
\* Properties
\* ===================================================================
Usable(s) == pc[s] \in {"ready", "get_activities", "get_athlete_profile"}

InApiCall(s) == pc[s] \in {"get_activities", "get_athlete_profile"}

ExpiredAtLoad(s) == loaded[s] # NoTokens /\ loadedAt[s] >= loaded[s].expires_at

ValidAtLoad(s) == loaded[s] # NoTokens /\ loadedAt[s] < loaded[s].expires_at

\* C1: no API request is in flight that was sent with an access token whose
\* TokenSet had already reached expires_at when the request was issued.
C1_NoRequestWithExpiredToken ==
    \A s \in Sessions :
        req[s].kind = "GET" => req[s].at < tokens[s].expires_at

\* C2: the check-then-refresh sequence is serialized: no two sessions have a
\* refresh exchange for the same refresh_token value in flight at once.
C2_OneExchangePerRefreshToken ==
    \A a, b \in Sessions :
        (a # b /\ req[a].kind = "POST" /\ req[b].kind = "POST")
            => req[a].code # req[b].code

\* C3: the step in which the token endpoint answers a refresh exchange with a
\* non-success status ends the call with an error, leaves self.tokens what the
\* constructor loaded, leaves every file as it was and opens no file to write.
C3_RejectedRefreshChangesNothing ==
    [][\A s \in Sessions :
          (exchangeStatus[s] # "rejected" /\ exchangeStatus'[s] = "rejected")
              => /\ pc'[s] = "failed"
                 /\ outcome'[s] = "TokenExchangeFailed"
                 /\ tokens'[s] = tokens[s]
                 /\ tokens'[s] = loaded[s]
                 /\ files' = files
                 /\ writes'[s] = 0]_vars

\* C3 witness: a refresh exchange was rejected and the constructor failed.
C3_Witness ==
    \E s \in Sessions :
        /\ exchangeStatus[s] = "rejected"
        /\ pc[s] = "failed"
        /\ ExpiredAtLoad(s)
        /\ issued[s] = 1

\* C4: once a fetcher has refreshed and is usable, the file it was constructed
\* from parses and reloads to exactly its in-memory TokenSet.
C4_SourceHoldsRefreshedTokens ==
    \A s \in Sessions :
        (Usable(s) /\ completed[s] >= 1)
            => /\ ParsesAsTokens(files[tokensFile[s]])
               /\ JsonLoad(files[tokensFile[s]]) = tokens[s]

\* C5: every refresh exchange in flight is a refresh-token grant: its
\* grant_type is refresh_token and its refresh_token field carries the
\* fetcher's current refresh token.
C5_ExchangeIsRefreshGrant ==
    \A s \in Sessions :
        req[s].kind = "POST"
            => /\ req[s].grant_type = "refresh_token"
               /\ "refresh_token" \in DOMAIN req[s]
               /\ req[s].refresh_token = tokens[s].refresh_token

\* C6: a fetcher whose loaded TokenSet was expired at the check never sends
\* more than one refresh exchange, and when the token endpoint has succeeded
\* and its token can be used it has sent exactly one, which was answered with
\* success before, and none is in flight.
C6_ExpiredLoadRefreshesOnce ==
    \A s \in Sessions :
        ExpiredAtLoad(s)
            => /\ issued[s] <= 1
               /\ exchangeStatus[s] # "none" => issued[s] = 1
               /\ Usable(s) => /\ issued[s] = 1
                               /\ completed[s] = 1
                               /\ exchangeStatus[s] = "success"
                               /\ req[s].kind # "POST"

\* C6 witness: a fetcher that loaded an expired TokenSet, refreshed once and
\* is now sending a request.
C6_Witness ==
    \E s \in Sessions :
        /\ ExpiredAtLoad(s)
        /\ pc[s] = "get_activities"
        /\ issued[s] = 1
        /\ completed[s] = 1

\* C7: a fetcher whose loaded TokenSet was not expired at the check has sent
\* no refresh exchange, has opened no file to write, holds the three fields
\* it loaded, and sends its requests with the access token it loaded.
C7_ValidLoadLeavesTokens ==
    \A s \in Sessions :
        ValidAtLoad(s)
            => /\ issued[s] = 0
               /\ completed[s] = 0
               /\ writes[s] = 0
               /\ req[s].kind # "POST"
               /\ tokens[s] = loaded[s]
               /\ req[s].kind = "GET" => req[s].bearer = loaded[s].access_token

\* C7 witness: a fetcher that loaded a valid TokenSet is sending a request.
C7_Witness ==
    \E s \in Sessions :
        /\ ValidAtLoad(s)
        /\ pc[s] = "get_athlete_profile"
        /\ req[s].bearer = loaded[s].access_token

\* The fields of a raw activity that have a documented default, and the
\* processed field and default each maps to.
DefaultOf(row, k) ==
    CASE k = "name" -> row.name = "Unnamed Activity"
      [] k = "type" -> row.type = "Unknown"
      [] k = "distance" -> row.distance_km = 0
      [] k = "moving_time" -> row.moving_time_min = 0
      [] k = "total_elevation_gain" -> row.total_elevation_gain = 0
      [] k = "average_speed" -> row.average_speed_kmh = 0
      [] k = "average_heartrate" -> row.average_heartrate = <<>>
      [] k = "max_heartrate" -> row.max_heartrate = <<>>
      [] OTHER -> TRUE

\* C8: process_activities never fails on a batch with absent fields: it
\* yields one row per raw activity, in order, each absent field at its default.
C8_NormalizeTotal ==
    frame.status # "not_called"
        => /\ frame.status = "DataFrame"
           /\ Len(frame.rows) = Len(rawActivities)
           /\ \A i \in 1..Len(frame.rows) :
                 \A k \in ActivityKeys \ DOMAIN rawActivities[i] :
                     DefaultOf(frame.rows[i], k)

\* C9: every credential file always holds a complete TokenSet.
C9_FileAlwaysComplete ==
    \A p \in Paths : ParsesAsTokens(files[p])

\* C10: a call sends at most one request, and once that request has failed
\* (a failure status or a transport error) the call has ended with the error
\* raised and nothing more in flight.
C10_NoRetry ==
    \A s \in Sessions :
        /\ sent[s] <= 1
        /\ lastStatus[s] = "failure"
               => /\ pc[s] = "ready"
                  /\ req[s].kind = "none"
                  /\ outcome[s] \in {"HTTPError", "RequestException"}

\* C10 witness: a call whose single request met a failure status has raised.
C10_Witness ==
    \E s \in Sessions :
        /\ lastStatus[s] = "failure"
        /\ sent[s] = 1
        /\ outcome[s] = "HTTPError"
        /\ pc[s] = "ready"

\* C11: the step that ends a get_activities call returns an empty sequence
\* with the warning reported, and raises nothing, when the endpoint answered
\* 200 with an empty list; returns the list without a warning when it
\* answered 200 with activities; and raises whenever the status was not 200.
C11_EmptyListWarnsOtherStatusRaises ==
    [][\A s \in Sessions :
          (pc[s] = "get_activities" /\ pc'[s] = "ready")
              => /\ (lastStatus'[s] = "success" /\ lastBody'[s] = <<>>)
                        => /\ outcome'[s] = "returned"
                           /\ returned'[s] = <<>>
                           /\ warned'[s]
                 /\ (lastStatus'[s] = "success" /\ lastBody'[s] # <<>>)
                        => /\ outcome'[s] = "returned"
                           /\ returned'[s] = lastBody'[s]
                           /\ ~warned'[s]
                 /\ lastStatus'[s] = "failure"
                        => /\ outcome'[s] \in {"HTTPError", "RequestException"}
                           /\ returned'[s] = <<>>
                           /\ ~warned'[s]]_vars

\* C11 witness: a call was answered 200 with an empty list and has returned
\* the empty sequence with the warning.
C11_Witness ==
    \E s \in Sessions :
        /\ pc[s] = "ready"
        /\ lastStatus[s] = "success"
        /\ lastBody[s] = <<>>
        /\ outcome[s] = "returned"
        /\ returned[s] = <<>>
        /\ warned[s]

====
